---- MODULE Spec2Model ----
(***************************************************************************)
(* Model of the vCard 3.0 codec of converter.py: _escape_vcard_value,      *)
(* _unfold_vcard_lines, build_vcard_row, parse_vcf, table_to_vcf and       *)
(* vcf_to_table.                                                           *)
(*                                                                         *)
(* Text is a sequence of one-character strings, so that escaping, line     *)
(* splitting and the regular expressions are computed character by         *)
(* character, as Python computes them.  The string literals of             *)
(* converter.py are read with their backslash escapes (the two-character   *)
(* literal backslash-n is the line feed, a doubled backslash is one        *)
(* backslash).                                                             *)
(***************************************************************************)
EXTENDS Naturals, Sequences, FiniteSets, TLC

VARIABLES
    pc,         \* position of the run: which step of which operation is next
    rows,       \* the table rows handed to build_vcard_row (load_table's result)
    lines,      \* the physical lines of the .vcf input file
    text,       \* vCard text: table_to_vcf's output, or vcf_to_table's f.read()
    log,        \* the conversions done so far, each with what it read and wrote
    cards,      \* the records parse_vcf returned
    value,      \* the argument of _escape_vcard_value
    escaped,    \* its result
    unescaped,  \* the result of the decoder's replace chain on `escaped`
    path,       \* the path of the table file: table_to_vcf's input_path,
                \* vcf_to_table's output_path
    steps       \* what the last call of table_to_vcf or vcf_to_table did,
                \* in the order of its statements

vars == <<pc, rows, lines, text, log, cards, value, escaped, unescaped,
          path, steps>>

----------------------------------------------------------------------------
(* Characters *)

NL  == "\n"
CR  == "\r"
TAB == "\t"
BS  == "\\"
SP  == " "

\* str.isspace() over the characters of the model
IsSpace(c) == c \in {SP, TAB, NL, CR}

LowerLetters == <<"a","b","c","d","e","f","g","h","i","j","k","l","m",
                  "n","o","p","q","r","s","t","u","v","w","x","y","z">>
UpperLetters == <<"A","B","C","D","E","F","G","H","I","J","K","L","M",
                  "N","O","P","Q","R","S","T","U","V","W","X","Y","Z">>

UpperChar(c) ==
    IF \E i \in 1..26 : LowerLetters[i] = c
    THEN UpperLetters[CHOOSE i \in 1..26 : LowerLetters[i] = c]
    ELSE c

\* str.upper()
Upper(s) == [i \in 1..Len(s) |-> UpperChar(s[i])]

----------------------------------------------------------------------------
(* Python str methods *)

\* s[i-1:].startswith(p), i counted from 1
StartsWithAt(s, i, p) ==
    /\ i + Len(p) - 1 <= Len(s)
    /\ \A k \in 1..Len(p) : s[i + k - 1] = p[k]

\* str.startswith
StartsWith(s, p) == StartsWithAt(s, 1, p)

\* re.IGNORECASE match of the literal p at the start of s
StartsWithNoCase(s, p) ==
    /\ Len(p) <= Len(s)
    /\ \A k \in 1..Len(p) : UpperChar(s[k]) = UpperChar(p[k])

\* s[n:]
Drop(s, n) == SubSeq(s, n + 1, Len(s))

\* p in s
Contains(s, p) == \E i \in 1..(Len(s) + 1) : StartsWithAt(s, i, p)

\* index of the first occurrence of p in s at or after i, 0 if none
NextAt(s, i, p) ==
    LET hits == {j \in i..Len(s) : StartsWithAt(s, j, p)}
    IN  IF hits = {} THEN 0 ELSE CHOOSE j \in hits : \A k \in hits : j <= k

RECURSIVE ReplaceFrom(_, _, _, _)
ReplaceFrom(s, i, old, new) ==
    LET j == NextAt(s, i, old)
    IN  IF j = 0 THEN SubSeq(s, i, Len(s))
        ELSE SubSeq(s, i, j - 1) \o new \o ReplaceFrom(s, j + Len(old), old, new)

\* str.replace(old, new): every occurrence, leftmost first, not overlapping
str_replace(s, old, new) == ReplaceFrom(s, 1, old, new)

RECURSIVE SplitFrom(_, _, _)
SplitFrom(s, start, sep) ==
    LET j == NextAt(s, start, sep)
    IN  IF j = 0 THEN << SubSeq(s, start, Len(s)) >>
        ELSE << SubSeq(s, start, j - 1) >> \o SplitFrom(s, j + Len(sep), sep)

\* str.split(sep)
str_split(s, sep) == SplitFrom(s, 1, sep)

\* index of the first line boundary of s at or after i, 0 if none
NextBreak(s, i) ==
    LET hits == {j \in i..Len(s) : s[j] \in {NL, CR}}
    IN  IF hits = {} THEN 0 ELSE CHOOSE j \in hits : \A k \in hits : j <= k

RECURSIVE SplitLinesFrom(_, _)
SplitLinesFrom(s, start) ==
    LET j == NextBreak(s, start)
    IN  IF j = 0
        THEN IF start > Len(s) THEN <<>> ELSE << SubSeq(s, start, Len(s)) >>
        ELSE << SubSeq(s, start, j - 1) >>
             \o SplitLinesFrom(s, IF s[j] = CR /\ j < Len(s) /\ s[j + 1] = NL
                                  THEN j + 2 ELSE j + 1)

\* str.splitlines(): line feed, carriage return and the pair are line
\* boundaries; no empty last line
str_splitlines(s) == SplitLinesFrom(s, 1)

\* index of the first character of s outside cs, Len(s)+1 if none
FirstOutside(s, cs) ==
    IF \E i \in 1..Len(s) : s[i] \notin cs
    THEN CHOOSE i \in 1..Len(s) :
            s[i] \notin cs /\ \A j \in 1..(i - 1) : s[j] \in cs
    ELSE Len(s) + 1

\* index of the first character of s that is in cs, Len(s)+1 if none
FirstIn(s, cs) ==
    IF \E i \in 1..Len(s) : s[i] \in cs
    THEN CHOOSE i \in 1..Len(s) :
            s[i] \in cs /\ \A j \in 1..(i - 1) : s[j] \notin cs
    ELSE Len(s) + 1

\* index of the last character of s outside cs, 0 if none
LastOutside(s, cs) ==
    IF \E i \in 1..Len(s) : s[i] \notin cs
    THEN CHOOSE i \in 1..Len(s) :
            s[i] \notin cs /\ \A j \in (i + 1)..Len(s) : s[j] \in cs
    ELSE 0

Whitespace == {SP, TAB, NL, CR}

\* str.lstrip()
str_lstrip(s) == SubSeq(s, FirstOutside(s, Whitespace), Len(s))

\* str.strip(chars)
str_strip_chars(s, cs) == SubSeq(s, FirstOutside(s, cs), LastOutside(s, cs))

\* str.strip()
str_strip(s) == str_strip_chars(s, Whitespace)

RECURSIVE JoinFrom(_, _, _)
JoinFrom(parts, i, sep) ==
    IF i > Len(parts) THEN <<>>
    ELSE IF i = Len(parts) THEN parts[i]
    ELSE parts[i] \o sep \o JoinFrom(parts, i + 1, sep)

\* sep.join(parts)
str_join(sep, parts) == JoinFrom(parts, 1, sep)

----------------------------------------------------------------------------
(* _escape_vcard_value and the decoder's inverse chain *)

_escape_vcard_value(v) ==
    str_replace(str_replace(str_replace(str_replace(v,
        <<BS>>, <<BS, BS>>),
        <<";">>, <<BS, ";">>),
        <<",">>, <<BS, ",">>),
        <<NL>>, <<BS, "n">>)

\* unescape_fn without its last replace (two backslashes to one)
unescape_fn_NoBackslash(v) ==
    str_replace(str_replace(str_replace(v,
        <<BS, ",">>, <<",">>),
        <<BS, ";">>, <<";">>),
        <<BS, "n">>, <<NL>>)

\* the replace chain parse_vcf applies to the FN value
unescape_fn(v) ==
    str_replace(str_replace(str_replace(str_replace(v,
        <<BS, ",">>, <<",">>),
        <<BS, ";">>, <<";">>),
        <<BS, "n">>, <<NL>>),
        <<BS, BS>>, <<BS>>)

\* the replace chain parse_vcf applies to the two N components
unescape_n(v) ==
    str_replace(str_replace(v, <<BS, ",">>, <<",">>), <<BS, ";">>, <<";">>)

----------------------------------------------------------------------------
(* The string literals of converter.py *)

K_given_name == <<"g","i","v","e","n","_","n","a","m","e">>
K_family_name == <<"f","a","m","i","l","y","_","n","a","m","e">>
K_full_name == <<"f","u","l","l","_","n","a","m","e">>
K_org == <<"o","r","g">>
K_title == <<"t","i","t","l","e">>
K_street == <<"s","t","r","e","e","t">>
K_city == <<"c","i","t","y">>
K_region == <<"r","e","g","i","o","n">>
K_postal == <<"p","o","s","t","a","l">>
K_country == <<"c","o","u","n","t","r","y">>
K_note == <<"n","o","t","e">>
K_phone == <<"p","h","o","n","e">>
K_phone_mobile == <<"p","h","o","n","e","_","m","o","b","i","l","e">>
K_phone_home == <<"p","h","o","n","e","_","h","o","m","e">>
K_phone_work == <<"p","h","o","n","e","_","w","o","r","k">>
K_email == <<"e","m","a","i","l">>
K_email_alt == <<"e","m","a","i","l","_","a","l","t">>
S_BEGIN_VCARD == <<"B","E","G","I","N",":","V","C","A","R","D">>
S_END_VCARD == <<"E","N","D",":","V","C","A","R","D">>
S_VERSION == <<"V","E","R","S","I","O","N",":","3",".","0">>
S_TanpaNama == <<"T","a","n","p","a"," ","N","a","m","a">>
S_VOICE == <<"V","O","I","C","E">>
S_CELL == <<"C","E","L","L">>
S_HOME == <<"H","O","M","E">>
S_WORK == <<"W","O","R","K">>
S_phone_ == <<"p","h","o","n","e","_">>
S_N == <<"N",":">>
S_FN == <<"F","N",":">>
S_TEL == <<"T","E","L">>
S_TYPE == <<";","T","Y","P","E","=">>
S_TEL_TYPE == <<"T","E","L",";","T","Y","P","E","=">>
S_EMAIL == <<"E","M","A","I","L">>
S_EMAIL_INTERNET == <<"E","M","A","I","L",";","T","Y","P","E","=","I","N","T","E","R","N","E","T",":">>
S_ORG == <<"O","R","G",":">>
S_TITLE == <<"T","I","T","L","E",":">>
S_ADR == <<"A","D","R">>
S_ADR_HOME == <<"A","D","R",";","T","Y","P","E","=","H","O","M","E",":">>
S_NOTE == <<"N","O","T","E",":">>
K_phones == <<"p","h","o","n","e","s">>
K_emails == <<"e","m","a","i","l","s">>
K_phones_typed == <<"p","h","o","n","e","s","_","t","y","p","e","d">>
S_semi_space == <<";"," ">>

----------------------------------------------------------------------------
(* build_vcard_row.  A row is a Python dict: a sequence of <<key, value>>  *)
(* pairs with distinct keys, in the dict's iteration order.  Values are    *)
(* text (cells read by csv.DictReader).                                    *)

\* row.get(k, "") or ""
row_get(row, k) ==
    IF \E i \in 1..Len(row) : row[i][1] = k
    THEN row[CHOOSE i \in 1..Len(row) : row[i][1] = k][2]
    ELSE <<>>

\* str(row.get(k, "") or "").strip()
row_field(row, k) == str_strip(row_get(row, k))

NonEmpty(p) == p # <<>>

\* lines 46-47: the FN value
derive_full_name(full_name, given, family) ==
    IF full_name # <<>> THEN full_name
    ELSE LET joined == str_strip(str_join(<<SP>>,
                           SelectSeq(<<given, family>>, NonEmpty)))
         IN  IF joined # <<>> THEN joined ELSE S_TanpaNama

\* add_phone(val, typ), lines 61-64
add_phone(phones, val, typ) ==
    LET num == str_strip(val)
    IN  IF num # <<>> THEN Append(phones, <<typ, num>>) ELSE phones

\* k.split("_", 1)[1]
AfterFirstUnderscore(k) == Drop(k, FirstIn(k, {"_"}))

RECURSIVE custom_phones(_, _, _)
\* lines 70-73: the loop over row.items()
custom_phones(row, i, phones) ==
    IF i > Len(row) THEN phones
    ELSE LET k == row[i][1]
         IN  IF /\ StartsWith(k, S_phone_)
                /\ k \notin {K_phone_mobile, K_phone_home, K_phone_work}
             THEN custom_phones(row, i + 1,
                      add_phone(phones, row[i][2],
                                IF Contains(k, <<"_">>)
                                THEN Upper(AfterFirstUnderscore(k))
                                ELSE S_VOICE))
             ELSE custom_phones(row, i + 1, phones)

\* row_phones with the CELL slot read before the VOICE slot
row_phones_CellFirst(row) ==
    custom_phones(row, 1,
        add_phone(add_phone(add_phone(add_phone(<<>>,
            row_get(row, K_phone_mobile), S_CELL),
            row_get(row, K_phone), S_VOICE),
            row_get(row, K_phone_home), S_HOME),
            row_get(row, K_phone_work), S_WORK))

\* lines 60-73: the (type, number) pairs of the row
row_phones(row) ==
    custom_phones(row, 1,
        add_phone(add_phone(add_phone(add_phone(<<>>,
            row_get(row, K_phone), S_VOICE),
            row_get(row, K_phone_mobile), S_CELL),
            row_get(row, K_phone_home), S_HOME),
            row_get(row, K_phone_work), S_WORK))

\* lines 75-79
row_emails(row) ==
    SelectSeq(<<row_field(row, K_email), row_field(row, K_email_alt)>>, NonEmpty)

\* lines 81-100: the list v
build_vcard_lines(row) ==
    LET given   == row_field(row, K_given_name)
        family  == row_field(row, K_family_name)
        full    == derive_full_name(row_field(row, K_full_name), given, family)
        org     == row_field(row, K_org)
        title   == row_field(row, K_title)
        street  == row_field(row, K_street)
        city    == row_field(row, K_city)
        region  == row_field(row, K_region)
        postal  == row_field(row, K_postal)
        country == row_field(row, K_country)
        note    == row_field(row, K_note)
        phones  == row_phones(row)
        emails  == row_emails(row)
        adr     == << <<>>, <<>>, street, city, region, postal, country >>
    IN  << S_BEGIN_VCARD,
           S_VERSION,
           S_N \o _escape_vcard_value(family) \o <<";">>
               \o _escape_vcard_value(given) \o <<";", ";", ";">>,
           S_FN \o _escape_vcard_value(full) >>
        \o [i \in 1..Len(phones) |->
               S_TEL_TYPE \o phones[i][1] \o <<":">>
                          \o _escape_vcard_value(phones[i][2])]
        \o [i \in 1..Len(emails) |->
               S_EMAIL_INTERNET \o _escape_vcard_value(emails[i])]
        \o (IF org # <<>> THEN << S_ORG \o _escape_vcard_value(org) >> ELSE <<>>)
        \o (IF title # <<>> THEN << S_TITLE \o _escape_vcard_value(title) >> ELSE <<>>)
        \o (IF \E i \in 3..7 : adr[i] # <<>>
            THEN << S_ADR_HOME \o str_join(<<";">>,
                       [i \in 1..7 |-> _escape_vcard_value(adr[i])]) >>
            ELSE <<>>)
        \o (IF note # <<>> THEN << S_NOTE \o _escape_vcard_value(note) >> ELSE <<>>)
        \o << S_END_VCARD >>

\* lines 42-102
build_vcard_row(row) == str_join(<<NL>>, build_vcard_lines(row))

\* encode_all without the newline after the last block
encode_all_NoLastNewline(rs) ==
    str_join(<<NL>>, [i \in 1..Len(rs) |-> build_vcard_row(rs[i])])

\* lines 225-229: the text table_to_vcf writes for the loaded rows
encode_all(rs) ==
    LET vcards == [i \in 1..Len(rs) |-> build_vcard_row(rs[i])]
    IN  str_join(<<NL>>, vcards) \o (IF vcards # <<>> THEN <<NL>> ELSE <<>>)

----------------------------------------------------------------------------
(* _unfold_vcard_lines *)

\* lines 35-39: one turn of the loop
unfold_step(out, line) ==
    IF StartsWith(line, <<SP>>) \/ StartsWith(line, <<TAB>>)
    THEN IF out # <<>>
         THEN [out EXCEPT ![Len(out)] = @ \o str_lstrip(line)]
         ELSE out
    ELSE Append(out, line)

RECURSIVE UnfoldFrom(_, _, _)
UnfoldFrom(ls, i, out) ==
    IF i > Len(ls) THEN out
    ELSE UnfoldFrom(ls, i + 1, unfold_step(out, ls[i]))

_unfold_vcard_lines(ls) == UnfoldFrom(ls, 1, <<>>)

----------------------------------------------------------------------------
(* The regular expressions, lines 104-111.  A match is a record: ok, and   *)
(* the groups g1 and g2 (none is <<>>; has1 tells whether group 1 took     *)
(* part).  All are compiled with re.IGNORECASE and used with match().      *)

NoMatch == [ok |-> FALSE, has1 |-> FALSE, g1 |-> <<>>, g2 |-> <<>>]

\* what is left for a group that is followed by $: $ also matches before a
\* line feed that ends the string
BeforeDollar(rest) ==
    IF rest # <<>> /\ rest[Len(rest)] = NL
    THEN SubSeq(rest, 1, Len(rest) - 1)
    ELSE rest

\* the dot matches everything but the line feed
AllDot(s) == \A i \in 1..Len(s) : s[i] # NL

\* ^NAME:(.*)$ with name = "NAME:"
MatchRest(line, name) ==
    IF StartsWithNoCase(line, name) /\ AllDot(BeforeDollar(Drop(line, Len(name))))
    THEN [ok |-> TRUE, has1 |-> TRUE,
          g1 |-> BeforeDollar(Drop(line, Len(name))), g2 |-> <<>>]
    ELSE NoMatch

FN_RE(line)    == MatchRest(line, S_FN)
N_RE(line)     == MatchRest(line, S_N)
ORG_RE(line)   == MatchRest(line, S_ORG)
TITLE_RE(line) == MatchRest(line, S_TITLE)
NOTE_RE(line)  == MatchRest(line, S_NOTE)

\* (.+)$ on rest
MatchSome(rest) == BeforeDollar(rest) # <<>> /\ AllDot(BeforeDollar(rest))

\* TEL_RE with its pattern lost: every line that reaches it is a number
TEL_RE_AnyLine(line) ==
    [ok |-> TRUE, has1 |-> FALSE, g1 |-> <<>>, g2 |-> line]

\* ^TEL(?:;TYPE=([^:;]+))?:(.+)$
\* [^:;]+ is greedy and cannot cross a colon or a semicolon, so with the
\* group the colon is the first of the two after TYPE=; without it the colon
\* follows TEL at once.
TEL_RE(line) ==
    IF ~StartsWithNoCase(line, S_TEL) THEN NoMatch
    ELSE LET r == Drop(line, Len(S_TEL))
         IN  IF StartsWith(r, <<":">>) /\ MatchSome(Drop(r, 1))
             THEN [ok |-> TRUE, has1 |-> FALSE, g1 |-> <<>>,
                   g2 |-> BeforeDollar(Drop(r, 1))]
             ELSE IF StartsWithNoCase(r, S_TYPE)
             THEN LET p == Drop(r, Len(S_TYPE))
                      n == FirstIn(p, {":", ";"})
                  IN  IF /\ n > 1
                         /\ n <= Len(p)
                         /\ p[n] = ":"
                         /\ MatchSome(Drop(p, n))
                      THEN [ok |-> TRUE, has1 |-> TRUE,
                            g1 |-> SubSeq(p, 1, n - 1),
                            g2 |-> BeforeDollar(Drop(p, n))]
                      ELSE NoMatch
             ELSE NoMatch

\* ^EMAIL(?::|;TYPE=[^:]+:)(.+)$
EMAIL_RE(line) ==
    IF ~StartsWithNoCase(line, S_EMAIL) THEN NoMatch
    ELSE LET r == Drop(line, Len(S_EMAIL))
         IN  IF StartsWith(r, <<":">>) /\ MatchSome(Drop(r, 1))
             THEN [ok |-> TRUE, has1 |-> TRUE,
                   g1 |-> BeforeDollar(Drop(r, 1)), g2 |-> <<>>]
             ELSE IF StartsWithNoCase(r, S_TYPE)
             THEN LET p == Drop(r, Len(S_TYPE))
                      n == FirstIn(p, {":"})
                  IN  IF n > 1 /\ n <= Len(p) /\ MatchSome(Drop(p, n))
                      THEN [ok |-> TRUE, has1 |-> TRUE,
                            g1 |-> BeforeDollar(Drop(p, n)), g2 |-> <<>>]
                      ELSE NoMatch
             ELSE NoMatch

\* ([^$]+)$ on rest: one or more characters other than the dollar sign
MatchNoDollar(rest) == rest # <<>> /\ \A i \in 1..Len(rest) : rest[i] # "$"

\* ^ADR(?:;TYPE=[^:]+)?:([^$]+)$
ADR_RE(line) ==
    IF ~StartsWithNoCase(line, S_ADR) THEN NoMatch
    ELSE LET r == Drop(line, Len(S_ADR))
         IN  IF StartsWith(r, <<":">>) /\ MatchNoDollar(Drop(r, 1))
             THEN [ok |-> TRUE, has1 |-> TRUE, g1 |-> Drop(r, 1), g2 |-> <<>>]
             ELSE IF StartsWithNoCase(r, S_TYPE)
             THEN LET p == Drop(r, Len(S_TYPE))
                      n == FirstIn(p, {":"})
                  IN  IF n > 1 /\ n <= Len(p) /\ MatchNoDollar(Drop(p, n))
                      THEN [ok |-> TRUE, has1 |-> TRUE,
                            g1 |-> Drop(p, n), g2 |-> <<>>]
                      ELSE NoMatch
             ELSE NoMatch

----------------------------------------------------------------------------
(* parse_vcf.  A record is the dict rec; the key phones_typed, which the   *)
(* code creates at the first TEL line, is <<>> until then.                 *)

\* lines 122-128
NewRec ==
    [full_name |-> <<>>, given_name |-> <<>>, family_name |-> <<>>,
     phones |-> <<>>, emails |-> <<>>,
     org |-> <<>>, title |-> <<>>,
     street |-> <<>>, city |-> <<>>, region |-> <<>>, postal |-> <<>>,
     country |-> <<>>,
     note |-> <<>>,
     phones_typed |-> <<>>]

\* parts[i] if len(parts) > i else "", i counted from 0
PartOr(parts, i) == IF Len(parts) > i THEN parts[i + 1] ELSE <<>>

\* lines 130-165: the body of the loop over the logical lines
apply_line(rec, line) ==
    IF FN_RE(line).ok
    THEN [rec EXCEPT !.full_name = unescape_fn(FN_RE(line).g1)]
    ELSE IF N_RE(line).ok
    THEN LET parts == str_split(N_RE(line).g1, <<";">>)
         IN  [rec EXCEPT !.family_name = unescape_n(PartOr(parts, 0)),
                         !.given_name  = unescape_n(PartOr(parts, 1))]
    ELSE IF TEL_RE(line).ok
    THEN LET m      == TEL_RE(line)
             type   == Upper(IF m.has1 /\ m.g1 # <<>> THEN m.g1 ELSE S_VOICE)
             number == m.g2
         IN  [rec EXCEPT !.phones_typed = Append(@, <<type, number>>),
                         !.phones = Append(@, number)]
    ELSE IF EMAIL_RE(line).ok
    THEN [rec EXCEPT !.emails = Append(@, EMAIL_RE(line).g1)]
    ELSE IF ORG_RE(line).ok
    THEN [rec EXCEPT !.org = ORG_RE(line).g1]
    ELSE IF TITLE_RE(line).ok
    THEN [rec EXCEPT !.title = TITLE_RE(line).g1]
    ELSE IF ADR_RE(line).ok
    THEN LET adr == str_split(ADR_RE(line).g1, <<";">>)
         IN  [rec EXCEPT !.street  = PartOr(adr, 2),
                         !.city    = PartOr(adr, 3),
                         !.region  = PartOr(adr, 4),
                         !.postal  = PartOr(adr, 5),
                         !.country = PartOr(adr, 6)]
    ELSE IF NOTE_RE(line).ok
    THEN [rec EXCEPT !.note = NOTE_RE(line).g1]
    ELSE rec

RECURSIVE ScanFrom(_, _, _)
ScanFrom(ls, i, rec) ==
    IF i > Len(ls) THEN rec
    ELSE ScanFrom(ls, i + 1, apply_line(rec, ls[i]))

\* name_fallback without the placeholder
name_fallback_NoPlaceholder(rec) ==
    IF rec.full_name = <<>>
    THEN [rec EXCEPT !.full_name =
              str_strip(rec.given_name \o <<SP>> \o rec.family_name)]
    ELSE rec

\* lines 166-167
name_fallback(rec) ==
    IF rec.full_name = <<>>
    THEN LET derived == str_strip(rec.given_name \o <<SP>> \o rec.family_name)
         IN  [rec EXCEPT !.full_name =
                  IF derived # <<>> THEN derived ELSE S_TanpaNama]
    ELSE rec

NotBlank(x) == str_strip(x) # <<>>

\* lines 119-120: the physical lines of a block
block_lines(block) ==
    LET kept == SelectSeq(str_splitlines(block), NotBlank)
    IN  [i \in 1..Len(kept) |-> str_strip_chars(kept[i], {NL})]

\* lines 119-168: the record of one block
parse_block(block) ==
    name_fallback(ScanFrom(_unfold_vcard_lines(block_lines(block)), 1, NewRec))

\* lines 117-118
is_card(block) == Contains(block, S_END_VCARD)

RECURSIVE CardsFrom(_, _)
CardsFrom(blocks, i) ==
    IF i > Len(blocks) THEN <<>>
    ELSE (IF is_card(blocks[i]) THEN << parse_block(blocks[i]) >> ELSE <<>>)
         \o CardsFrom(blocks, i + 1)

\* lines 113-169
parse_vcf(t) == CardsFrom(str_split(t, S_BEGIN_VCARD), 1)

----------------------------------------------------------------------------
(* vcf_to_table's rows and table_to_vcf's log *)

\* lines 238-241: o = dict(r) with phones and emails joined by "; ".  The
\* cell of phones_typed is kept as the list: build_vcard_row never reads it.
norm_record(r) ==
    << <<K_full_name, r.full_name>>,
       <<K_given_name, r.given_name>>,
       <<K_family_name, r.family_name>>,
       <<K_phones, str_join(S_semi_space, r.phones)>>,
       <<K_emails, str_join(S_semi_space, r.emails)>>,
       <<K_org, r.org>>,
       <<K_title, r.title>>,
       <<K_street, r.street>>,
       <<K_city, r.city>>,
       <<K_region, r.region>>,
       <<K_postal, r.postal>>,
       <<K_country, r.country>>,
       <<K_note, r.note>> >>
    \o (IF r.phones_typed # <<>>
        THEN << <<K_phones_typed, r.phones_typed>> >>
        ELSE <<>>)

----------------------------------------------------------------------------
(* load_table and save_table: the extension of the table path *)

LowerChar(c) ==
    IF \E i \in 1..26 : UpperLetters[i] = c
    THEN LowerLetters[CHOOSE i \in 1..26 : UpperLetters[i] = c]
    ELSE c

\* str.lower()
Lower(s) == [i \in 1..Len(s) |-> LowerChar(s[i])]

\* str.rfind(c) counted from 1: index of the last c in p, 0 if none
LastIndexOf(p, c) ==
    LET hits == {i \in 1..Len(p) : p[i] = c}
    IN  IF hits = {} THEN 0 ELSE CHOOSE i \in hits : \A k \in hits : k <= i

\* os.path.splitext(p)[1]: from the last dot of the last path component on,
\* unless only dots stand before it in that component
splitext_ext(p) ==
    LET sepIndex == LastIndexOf(p, "/")
        dotIndex == LastIndexOf(p, ".")
    IN  IF dotIndex > sepIndex
           /\ \E i \in (sepIndex + 1)..(dotIndex - 1) : p[i] # "."
        THEN SubSeq(p, dotIndex, Len(p))
        ELSE <<>>

\* lines 174 and 196
path_ext(p) == Lower(splitext_ext(p))

E_xlsx == <<".","x","l","s","x">>
E_csv == <<".","c","s","v">>
E_txt == <<".","t","x","t">>
E_tsv == <<".","t","s","v">>

\* lines 175, 186, 191-192: load_table reads the file or raises
load_table_supported(p) == path_ext(p) \in {E_xlsx} \cup {E_csv, E_txt, E_tsv}

\* lines 203, 210, 218-219: save_table writes the file or raises
save_table_supported(p) == path_ext(p) \in {E_csv, E_txt, E_tsv} \cup {E_xlsx}

\* the statements of table_to_vcf in order, lines 224-229 with load_table
table_to_vcf_steps(p) ==
    IF load_table_supported(p)
    THEN <<"table_to_vcf", "splitext input", "read input", "encode",
           "open output", "write output">>
    ELSE <<"table_to_vcf", "splitext input", "raise">>

\* the statements of vcf_to_table in order, lines 233-242 with save_table
vcf_to_table_steps(p) ==
    <<"vcf_to_table", "read input", "decode", "normalise",
      "splitext output", "headers">>
    \o (IF save_table_supported(p)
        THEN <<"open output", "write output">>
        ELSE <<"raise">>)

----------------------------------------------------------------------------
(* Bounds and inputs *)

MaxStrLen == 3       \* longest argument of _escape_vcard_value
MaxValLen == 2       \* longest generated cell of a one-cell row
MaxLines == 2        \* most property lines in a generated block
MaxRows == 2         \* most rows in a generated table of several rows
MaxConversions == 3  \* most conversions in a run

\* the physical lines of the input .vcf files
L_FN_Jane == <<"F","N",":","J","a","n","e">>
L_fn_lower == <<"f","n",":","j","o">>
L_FN_empty == <<"F","N",":">>
L_FN_esc == <<"F","N",":","a","\\",",","b","\\","\\","n">>
L_N_full == <<"N",":","D","o","e",";","J","o","h","n",";",";",";">>
L_N_one == <<"N",":","D","o","e">>
L_N_esc == <<"N",":","a","\\",";","b",";","c","\\","\\","d",";",";",";">>
L_TEL_cell == <<"T","E","L",";","T","Y","P","E","=","C","E","L","L",":","5","5","5">>
L_TEL_plain == <<"T","E","L",":","1","2","3">>
L_tel_lower == <<"t","e","l",";","t","y","p","e","=","h","o","m","e",":","7","7">>
L_TEL_two == <<"T","E","L",";","T","Y","P","E","=","W","O","R","K",";","T","Y","P","E","=","V","O","I","C","E",":","4","2">>
L_TEL_empty == <<"T","E","L",":">>
L_TEL_nocolon == <<"T","E","L">>
L_TEL_esc == <<"T","E","L",";","T","Y","P","E","=","C","E","L","L",":","5","\\",",","6">>
L_EMAIL_plain == <<"E","M","A","I","L",":","a","@","b">>
L_EMAIL_inet == <<"E","M","A","I","L",";","T","Y","P","E","=","I","N","T","E","R","N","E","T",":","j","@","x">>
L_EMAIL_pref == <<"E","M","A","I","L",";","P","R","E","F",":","p","@","q">>
L_EMAIL_empty == <<"E","M","A","I","L",":">>
L_ORG == <<"O","R","G",":","A","c","m","e","\\",","," ","I","n","c">>
L_TITLE == <<"T","I","T","L","E",":","B","o","s","s">>
L_NOTE == <<"N","O","T","E",":","h","i">>
L_ADR_full == <<"A","D","R",";","T","Y","P","E","=","H","O","M","E",":",";",";","1"," ","R","d",";","T","o","w","n",";","R","e","g",";","1","2","3",";","I","D">>
L_ADR_short == <<"A","D","R",":",";",";","R","d">>
L_ADR_dollar == <<"A","D","R",":",";",";","$","5"," ","R","d",";","T","o","w","n">>
L_ADR_empty == <<"A","D","R",":">>
L_X_unknown == <<"X","-","F","O","O",":","b","a","r">>
L_nocolon == <<"g","a","r","b","a","g","e">>
L_VERSION == <<"V","E","R","S","I","O","N",":","3",".","0">>
L_cont_sp == <<" ","D","o","e">>
L_cont_tab == <<"\t","D","o","e">>
L_cont_sp2 == <<" "," ","D","o","e">>
L_blank == <<" "," "," ">>
L_X_end == <<"X","-","A",":","E","N","D",":","V","C","A","R","D">>

V_John == <<"J","o","h","n">>
V_Doe == <<"D","o","e">>
V_phone == <<"+","6","2","8","1","2","3","4">>
V_mail == <<"j","@","e","x","a","m","p","l","e",".","c","o","m">>
V_Acme == <<"A","c","m","e",","," ","I","n","c">>
V_pad == <<" ","A","n","n"," ">>
V_office == <<"0","2","1">>
V_x == <<"x">>

\* keys and cells of the input tables
K_phone_office == <<"p","h","o","n","e","_","o","f","f","i","c","e">>
K_phone_fax == <<"p","h","o","n","e","_","f","a","x">>
K_nickname == <<"n","i","c","k","n","a","m","e">>

\* all sequences over S of length at most n
SeqsUpTo(S, n) == UNION {[1..k -> S] : k \in 0..n}

\* arguments of the escaper
EscSigma == {BS, ";", ",", NL, "n", "a"}
EscInputs == SeqsUpTo(EscSigma, MaxStrLen)

\* cells
CellSigma == {"a", ";", BS, SP, NL}
Cells == SeqsUpTo(CellSigma, MaxValLen)
CellKeys == {K_full_name, K_given_name, K_family_name, K_phone,
             K_phone_office, K_email, K_org, K_street, K_note}

OneCellRows == {<< <<k, v>> >> : k \in CellKeys, v \in Cells}

\* the example row of the documentation
RowJohn == << <<K_given_name, V_John>>, <<K_family_name, V_Doe>>,
              <<K_phone, V_phone>>, <<K_email, V_mail>> >>

\* every cell the encoder reads, and one it does not
RowFull == << <<K_nickname, V_x>>,
              <<K_full_name, V_pad>>,
              <<K_given_name, V_John>>, <<K_family_name, V_Doe>>,
              <<K_phone_fax, V_x>>,
              <<K_phone_work, V_office>>, <<K_phone_home, V_x>>,
              <<K_phone_mobile, V_phone>>, <<K_phone, V_office>>,
              <<K_phone_office, V_office>>,
              <<K_email_alt, V_x>>, <<K_email, V_mail>>,
              <<K_note, V_x>>, <<K_title, V_x>>, <<K_org, V_Acme>>,
              <<K_country, V_x>>, <<K_postal, V_x>>, <<K_region, V_x>>,
              <<K_city, V_x>>, <<K_street, V_x>> >>

NameCells == {<<>>, V_John, V_pad, <<SP>>}

\* the three name cells in every combination
NameRows == {<< <<K_full_name, f>>, <<K_given_name, g>>, <<K_family_name, h>> >> :
                f \in {<<>>, V_x, <<SP>>}, g \in NameCells, h \in NameCells}

\* two optional cells, each empty, blank or filled, with two custom phones
\* in both orders
PairRows ==
    {<< <<k1, a>>, <<k2, b>> >> :
        k1 \in {K_phone_office, K_org, K_city},
        k2 \in {K_phone_fax, K_email_alt, K_country},
        a \in {<<>>, <<SP>>, V_x}, b \in {<<>>, V_office}}
    \cup {<< <<K_phone_fax, V_x>>, <<K_phone_office, V_office>> >>,
          << <<K_phone_office, V_office>>, <<K_phone_fax, V_x>> >>}

\* cells with a carriage return inside
V_cr == <<"a", CR, "b">>
CrRows == {<< <<k, V_cr>> >> : k \in {K_full_name, K_note, K_city}}

\* cells that hold the texts BEGIN:VCARD and END:VCARD
V_end_begin == S_END_VCARD \o <<SP>> \o S_BEGIN_VCARD
RowBegin == << <<K_full_name, V_x>>, <<K_note, S_BEGIN_VCARD>> >>
RowEnd == << <<K_full_name, V_x>>, <<K_org, S_END_VCARD>> >>
RowEndBegin == << <<K_full_name, V_x>>, <<K_note, V_end_begin>> >>
DelimiterRows == {RowBegin, RowEnd, RowEndBegin}
DelimiterTables == {<<RowBegin, RowJohn>>, <<RowJohn, RowEnd>>,
                    <<RowEndBegin, RowJohn>>}

RowPool == OneCellRows \cup {RowJohn, RowFull} \cup NameRows \cup PairRows
           \cup CrRows \cup DelimiterRows

SmallRowPool == {RowJohn, << <<K_org, V_Acme>> >>, <<>>}

TableInputs ==
    {<<r>> : r \in RowPool} \cup SeqsUpTo(SmallRowPool, MaxRows)
    \cup DelimiterTables

\* property lines
NamePool == {L_FN_Jane, L_FN_empty, L_FN_esc, L_N_full, L_N_one, L_N_esc}
TelPool  == {L_TEL_cell, L_TEL_plain, L_tel_lower, L_TEL_two, L_TEL_empty,
             L_TEL_nocolon}
MailPool == {L_EMAIL_plain, L_EMAIL_inet, L_EMAIL_pref, L_EMAIL_empty,
             L_TEL_esc, L_fn_lower}
FoldPool == {L_FN_Jane, L_NOTE, L_cont_sp, L_cont_tab, L_cont_sp2, L_blank}
MiscPool == {L_ORG, L_TITLE, L_ADR_full, L_X_unknown, L_nocolon}
AdrPool  == {L_ADR_full, L_ADR_short, L_ADR_dollar, L_ADR_empty}

Bodies == SeqsUpTo(NamePool, MaxLines) \cup SeqsUpTo(TelPool, MaxLines)
          \cup SeqsUpTo(MailPool, MaxLines) \cup SeqsUpTo(FoldPool, MaxLines)
          \cup SeqsUpTo(MiscPool, MaxLines) \cup SeqsUpTo(AdrPool, MaxLines)

\* lines of the files without a whole block
LoosePool == {L_FN_Jane, L_N_full, L_X_end}

TwoBlockPool == {L_FN_Jane, L_TEL_plain, L_nocolon}

\* property lines outside the blocks: before the first block, between two
\* blocks, after the last
StrayLines == {L_fn_lower, L_TEL_cell}
StrayInputs ==
    {pre \o <<S_BEGIN_VCARD, x, S_END_VCARD>> \o mid
         \o <<S_BEGIN_VCARD, y, S_END_VCARD>> \o post :
        pre \in SeqsUpTo(StrayLines, 1), mid \in SeqsUpTo(StrayLines, 1),
        post \in SeqsUpTo(StrayLines, 1),
        x \in {L_FN_Jane, L_nocolon}, y \in {L_FN_Jane, L_ORG}}

FileInputs ==
    \* one whole block
    {<<S_BEGIN_VCARD, L_VERSION>> \o b \o <<S_END_VCARD>> : b \in Bodies}
    \* no BEGIN:VCARD, with and without END:VCARD
    \cup {b \o <<S_END_VCARD>> : b \in SeqsUpTo(LoosePool, MaxLines)}
    \cup SeqsUpTo(LoosePool, MaxLines)
    \* no END:VCARD
    \cup {<<S_BEGIN_VCARD>> \o b : b \in SeqsUpTo(LoosePool, MaxLines)}
    \* two blocks
    \cup {<<S_BEGIN_VCARD, x, S_END_VCARD, S_BEGIN_VCARD, y, S_END_VCARD>> :
             x \in TwoBlockPool, y \in TwoBlockPool}
    \cup StrayInputs

\* paths of the table file
P_csv == <<"t",".","c","s","v">>
P_CSV_upper == <<"t",".","C","S","V">>
P_tsv == <<"t",".","t","s","v">>
P_txt == <<"d",".","c","s","v","/","t",".","t","x","t">>
P_xlsx == <<"t",".","x","l","s","x">>
P_vcf == <<"t",".","v","c","f">>
P_json == <<"t",".","c","s","v",".","j","s","o","n">>
P_none == <<"t">>
P_dotfile == <<".","c","s","v">>
P_dotdir == <<"d",".","c","s","v","/","t">>

TablePaths == {P_csv, P_CSV_upper, P_tsv, P_txt, P_xlsx, P_vcf, P_json,
               P_none, P_dotfile, P_dotdir}

\* the tables and files converted under every path
PathTables == {<<>>, <<RowJohn>>, << << <<K_org, V_Acme>> >> >>}
PathFiles == {<<S_BEGIN_VCARD, L_FN_Jane, L_TEL_plain, S_END_VCARD>>,
              <<S_BEGIN_VCARD, L_ORG, S_END_VCARD>>,
              <<L_nocolon>>}

\* f.read() of a file with these physical lines
FileText(ls) == str_join(<<NL>>, ls)

----------------------------------------------------------------------------
(* The state machine *)

Init ==
    /\ cards = <<>>
    /\ log = <<>>
    /\ escaped = <<>>
    /\ unescaped = <<>>
    /\ steps = <<>>
    /\ \/ /\ pc = "table"
          /\ \/ rows \in TableInputs /\ path = P_csv
             \/ rows \in PathTables /\ path \in TablePaths
          /\ lines = <<>>
          /\ text = <<>>
          /\ value = <<>>
       \/ /\ pc = "vcf"
          /\ rows = <<>>
          /\ \/ lines \in FileInputs /\ path = P_csv
             \/ lines \in PathFiles /\ path \in TablePaths
          /\ text = FileText(lines)
          /\ value = <<>>
       \/ /\ pc = "value"
          /\ rows = <<>>
          /\ lines = <<>>
          /\ text = <<>>
          /\ value \in EscInputs
          /\ path = <<>>

\* table_to_vcf, lines 223-229: load_table raises for a path it does not
\* support; else the rows are encoded and the text written
TableToVcf ==
    /\ pc = "table"
    /\ Len(log) < MaxConversions
    /\ steps' = table_to_vcf_steps(path)
    /\ IF load_table_supported(path)
       THEN /\ text' = encode_all(rows)
            /\ log' = Append(log, [op |-> "table_to_vcf", rows |-> rows,
                                   text |-> encode_all(rows)])
            /\ pc' = "vcf"
       ELSE /\ pc' = "raised"
            /\ UNCHANGED <<text, log>>
    /\ UNCHANGED <<rows, lines, cards, value, escaped, unescaped, path>>

\* vcf_to_table, lines 232-242: the text is read and decoded and the
\* records are normalised; save_table then writes them as the table, or
\* raises for a path it does not support
VcfToTable ==
    /\ pc = "vcf"
    /\ Len(log) < MaxConversions
    /\ steps' = vcf_to_table_steps(path)
    /\ cards' = parse_vcf(text)
    /\ IF save_table_supported(path)
       THEN /\ rows' = [i \in 1..Len(parse_vcf(text)) |->
                           norm_record(parse_vcf(text)[i])]
            /\ log' = Append(log, [op |-> "vcf_to_table", rows |-> <<>>,
                                   text |-> text])
            /\ pc' = "table"
       ELSE /\ pc' = "raised"
            /\ UNCHANGED <<rows, log>>
    /\ UNCHANGED <<lines, text, value, escaped, unescaped, path>>

\* _escape_vcard_value, lines 27-30
Escape ==
    /\ pc = "value"
    /\ escaped' = _escape_vcard_value(value)
    /\ pc' = "escaped"
    /\ UNCHANGED <<rows, lines, text, log, cards, value, unescaped, path, steps>>

\* the replace chain of lines 132-133 on the escaped value
Unescape ==
    /\ pc = "escaped"
    /\ unescaped' = unescape_fn(escaped)
    /\ pc' = "unescaped"
    /\ UNCHANGED <<rows, lines, text, log, cards, value, escaped, path, steps>>

Next == TableToVcf \/ VcfToTable \/ Escape \/ Unescape

Spec == Init /\ [][Next]_vars

----------------------------------------------------------------------------
(* What the claims speak of *)

LastOp == IF log = <<>> THEN "none" ELSE log[Len(log)].op

\* vcf_to_table was the last conversion: cards is parse_vcf(text)
Decoded == LastOp = "vcf_to_table"

\* table_to_vcf was the last conversion: text encodes log[Len(log)].rows
Encoded == LastOp = "table_to_vcf"

\* the text decoded is the input file's
FirstDecode == Decoded /\ Len(log) = 1

\* the text decoded is the encoding of the input table
RoundTrip == Decoded /\ Len(log) = 2 /\ log[1].op = "table_to_vcf"

\* the property name of a line: what stands before the first colon or
\* semicolon, in upper case
PropName(line) == Upper(SubSeq(line, 1, FirstIn(line, {":", ";"}) - 1))

HasColon(line) == \E i \in 1..Len(line) : line[i] = ":"

\* the value of a property line: what follows its first colon
PropValue(line) == Drop(line, FirstIn(line, {":"}))

IsContinuation(line) == line # <<>> /\ line[1] \in {SP, TAB}

NoFold(ls) == \A i \in 1..Len(ls) : ~IsContinuation(ls[i])

\* a file that is one block: BEGIN:VCARD first, END:VCARD last, neither
\* text anywhere else
OneBlock(ls) ==
    /\ Len(ls) >= 2
    /\ ls[1] = S_BEGIN_VCARD
    /\ ls[Len(ls)] = S_END_VCARD
    /\ \A i \in 2..(Len(ls) - 1) :
          ~Contains(ls[i], S_BEGIN_VCARD) /\ ~Contains(ls[i], S_END_VCARD)

S_name_TEL == <<"T","E","L">>
S_name_EMAIL == <<"E","M","A","I","L">>
S_name_FN == <<"F","N">>

IsTelLine(line) == PropName(line) = S_name_TEL /\ HasColon(line)
IsEmailLine(line) == PropName(line) = S_name_EMAIL /\ HasColon(line)

\* the values of the lines of ls that satisfy Test, in order
ValuesOf(ls, Test(_)) ==
    LET sel == SelectSeq(ls, Test)
    IN  [i \in 1..Len(sel) |-> PropValue(sel[i])]

----------------------------------------------------------------------------
(* C3 *)

\* s holds one of the two-character escape sequences
HasEscapeSequence(s) ==
    \E i \in 1..(Len(s) - 1) : s[i] = BS /\ s[i + 1] \in {BS, ";", ",", "n"}

\* C3: for every text s that holds none of the two-character escape
\* sequences, the decoder's replace chain applied to
\* _escape_vcard_value(s) gives s back.
C3_UnescapeInvertsEscape ==
    (pc = "unescaped" /\ ~HasEscapeSequence(value)) => unescaped = value

\* a value with a backslash next to an escaped character went through both
C3_Witness ==
    /\ pc = "unescaped"
    /\ ~HasEscapeSequence(value)
    /\ \E i \in 1..(Len(value) - 1) : value[i] = BS /\ value[i + 1] = NL
    /\ \E i \in 1..Len(value) : value[i] = ","
    /\ unescaped = value

----------------------------------------------------------------------------
(* C5 *)

\* C5: decoding a text with no occurrence of BEGIN:VCARD returns no record.
C5_NoBeginNoRecords ==
    (Decoded /\ ~Contains(text, S_BEGIN_VCARD)) => cards = <<>>

----------------------------------------------------------------------------
(* C7 *)

RECURSIVE OneLineFrom(_, _, _)
\* the same lines with every folded property written as one line: each
\* continuation line joins the line before it, less its one leading marker
OneLineFrom(ls, i, out) ==
    IF i > Len(ls) THEN out
    ELSE IF IsContinuation(ls[i]) /\ out # <<>>
         THEN OneLineFrom(ls, i + 1,
                  [out EXCEPT ![Len(out)] = @ \o Drop(ls[i], 1)])
         ELSE OneLineFrom(ls, i + 1, Append(out, ls[i]))

WrittenUnfolded(ls) == OneLineFrom(ls, 1, <<>>)

\* C7: a block with folded lines decodes to the same records as the block
\* with each folded property written as one line (the continuation joined
\* less exactly its one leading space or tab).  Stated for files whose
\* lines all hold more than white space.
C7_FoldedDecodesAsUnfolded ==
    (/\ FirstDecode
     /\ OneBlock(lines)
     /\ \A i \in 1..Len(lines) : NotBlank(lines[i]))
    => cards = parse_vcf(FileText(WrittenUnfolded(lines)))

----------------------------------------------------------------------------
(* C8 *)

\* every TEL and EMAIL line of ls has a value
AllValued(ls) ==
    \A i \in 1..Len(ls) :
        (IsTelLine(ls[i]) \/ IsEmailLine(ls[i])) => PropValue(ls[i]) # <<>>

\* C8: the phones of a decoded record are the values of the TEL lines of
\* its block, one for one and in order, and its emails are the values of
\* the EMAIL lines; no such line is dropped, with or without a TYPE
\* parameter or further parameters.  Stated for files of one block without
\* folded lines, whose TEL and EMAIL lines all have a value.
C8_OneEntryPerLine ==
    (FirstDecode /\ OneBlock(lines) /\ NoFold(lines) /\ AllValued(lines))
    => /\ Len(cards) = 1
       /\ cards[1].phones = ValuesOf(lines, IsTelLine)
       /\ cards[1].emails = ValuesOf(lines, IsEmailLine)

----------------------------------------------------------------------------
(* C1, C2, C4: the round trip *)

\* the one row of the input table of a round trip
InputRow == log[1].rows[1]

OneRowRoundTrip == RoundTrip /\ Len(log[1].rows) = 1

\* C1: decoding the encoding of a record r gives exactly one record, whose
\* full_name, phones and emails are r's (a cell counts as the encoder reads
\* it, without its surrounding white space; a record with no full_name cell
\* is not asked for its full_name).
C1_RoundTripKeepsNamePhonesEmails ==
    OneRowRoundTrip
    => /\ Len(cards) = 1
       /\ (row_field(InputRow, K_full_name) # <<>>
              => cards[1].full_name = row_field(InputRow, K_full_name))
       /\ cards[1].phones =
              [i \in 1..Len(row_phones(InputRow)) |-> row_phones(InputRow)[i][2]]
       /\ cards[1].emails = row_emails(InputRow)

\* C2: encoding the records decoded from an encoding gives the same text
\* again.
C2_ReencodingIsIdempotent ==
    (/\ Len(log) = 3
     /\ log[1].op = "table_to_vcf"
     /\ log[3].op = "table_to_vcf")
    => log[3].text = log[1].text

ScalarKeys == {K_given_name, K_family_name, K_org, K_title, K_note,
               K_street, K_city, K_region, K_postal, K_country}

\* rec[k] for a scalar key
RecField(rec, k) ==
    CASE k = K_given_name  -> rec.given_name
      [] k = K_family_name -> rec.family_name
      [] k = K_org         -> rec.org
      [] k = K_title       -> rec.title
      [] k = K_note        -> rec.note
      [] k = K_street      -> rec.street
      [] k = K_city        -> rec.city
      [] k = K_region      -> rec.region
      [] k = K_postal      -> rec.postal
      [] k = K_country     -> rec.country

\* C4: every value comes back from the round trip as it went in, with no
\* escape sequence left in it: each scalar field, each phone and each email
\* of the decoded record is the value that was encoded.
C4_DecodedValuesAreUnescaped ==
    OneRowRoundTrip
    => /\ Len(cards) = 1
       /\ \A k \in ScalarKeys : RecField(cards[1], k) = row_field(InputRow, k)
       /\ cards[1].phones =
              [i \in 1..Len(row_phones(InputRow)) |-> row_phones(InputRow)[i][2]]
       /\ cards[1].emails = row_emails(InputRow)

----------------------------------------------------------------------------
(* C6 *)

\* the full name the record of a row is to carry: its full_name, else
\* given_name + " " + family_name trimmed, else the placeholder (cells as
\* the encoder reads them, without their surrounding white space)
ExpectedFullName(row) ==
    LET f == str_strip(row_get(row, K_full_name))
        d == str_strip(str_strip(row_get(row, K_given_name)) \o <<SP>>
                       \o str_strip(row_get(row, K_family_name)))
    IN  IF f # <<>> THEN f ELSE IF d # <<>> THEN d ELSE S_TanpaNama

\* the name a decoded record carries when its block gave no full name
DerivedName(rec) ==
    LET d == str_strip(rec.given_name \o <<SP>> \o rec.family_name)
    IN  IF d # <<>> THEN d ELSE S_TanpaNama

IsFNLine(line) == PropName(line) = S_name_FN /\ HasColon(line)

\* t gives no full name: none of its lines, folded ones written as one, is
\* an FN line with a value
NoFullNameGiven(t) ==
    LET ls == WrittenUnfolded(str_splitlines(t))
    IN  \A i \in 1..Len(ls) : IsFNLine(ls[i]) => PropValue(ls[i]) = <<>>

\* C6: full_name is never empty after encode or decode.  Every row is
\* encoded with exactly one FN line, whose value is not empty and is the
\* row's full name, else its given and family names joined by a space and
\* trimmed, else the placeholder; every decoded record has a non-empty
\* full_name, which for a text that gives no full name is the record's
\* given and family names joined by a space and trimmed, else the
\* placeholder.
C6_FullNameNeverEmpty ==
    /\ Encoded =>
         LET rs == log[Len(log)].rows
             fn == SelectSeq(str_split(text, <<NL>>), IsFNLine)
         IN  /\ Len(fn) = Len(rs)
             /\ \A i \in 1..Len(fn) :
                   /\ Len(fn[i]) > Len(S_FN)
                   /\ fn[i] = S_FN \o _escape_vcard_value(ExpectedFullName(rs[i]))
    /\ Decoded =>
         \A i \in 1..Len(cards) :
             /\ cards[i].full_name # <<>>
             /\ NoFullNameGiven(text) => cards[i].full_name = DerivedName(cards[i])

\* a block with an N line and no full name was decoded, and the record's
\* full name was derived from the two names
C6_Witness ==
    /\ FirstDecode
    /\ OneBlock(lines)
    /\ NoFullNameGiven(text)
    /\ Len(cards) = 1
    /\ cards[1].given_name # <<>>
    /\ cards[1].family_name # <<>>
    /\ cards[1].full_name = cards[1].given_name \o <<SP>> \o cards[1].family_name

----------------------------------------------------------------------------
(* C9 *)

\* the property names of an encoded block, in the order of the claim
LineOrder ==
    << <<"B","E","G","I","N">>,
       <<"V","E","R","S","I","O","N">>,
       <<"N">>,
       <<"F","N">>,
       <<"T","E","L">>,
       <<"E","M","A","I","L">>,
       <<"O","R","G">>,
       <<"T","I","T","L","E">>,
       <<"A","D","R">>,
       <<"N","O","T","E">>,
       <<"E","N","D">> >>

\* the place of a line's property in LineOrder, 0 if it has none
Rank(line) ==
    LET n == PropName(line)
    IN  IF \E k \in 1..Len(LineOrder) : LineOrder[k] = n
        THEN CHOOSE k \in 1..Len(LineOrder) : LineOrder[k] = n
        ELSE 0

\* how many entries of the ranks rs are k
CountRank(rs, k) == Cardinality({i \in 1..Len(rs) : rs[i] = k})

Filled(row, k) == str_strip(row_get(row, k)) # <<>>

IsCustomPhone(pair) ==
    /\ StartsWith(pair[1], S_phone_)
    /\ pair[1] \notin {K_phone_mobile, K_phone_home, K_phone_work}
    /\ str_strip(pair[2]) # <<>>

\* the TYPE labels the TEL lines of a row are to carry, in order
ExpectedTelTypes(row) ==
    (IF Filled(row, K_phone) THEN <<S_VOICE>> ELSE <<>>)
    \o (IF Filled(row, K_phone_mobile) THEN <<S_CELL>> ELSE <<>>)
    \o (IF Filled(row, K_phone_home) THEN <<S_HOME>> ELSE <<>>)
    \o (IF Filled(row, K_phone_work) THEN <<S_WORK>> ELSE <<>>)
    \o [i \in 1..Len(SelectSeq(row, IsCustomPhone)) |->
           Upper(Drop(SelectSeq(row, IsCustomPhone)[i][1], Len(S_phone_)))]

\* the addresses the EMAIL lines of a row are to carry, in order
ExpectedEmails(row) ==
    (IF Filled(row, K_email)
     THEN <<str_strip(row_get(row, K_email))>> ELSE <<>>)
    \o (IF Filled(row, K_email_alt)
        THEN <<str_strip(row_get(row, K_email_alt))>> ELSE <<>>)

\* the TYPE label of a TEL line: between TEL;TYPE= and the first colon
TelType(line) == SubSeq(line, Len(S_TEL_TYPE) + 1, FirstIn(line, {":"}) - 1)

HasRank5(line) == Rank(line) = 5
HasRank6(line) == Rank(line) = 6

RECURSIVE BlocksFrom(_, _, _, _)
\* the lines ls cut after each END:VCARD line
BlocksFrom(ls, i, cur, out) ==
    IF i > Len(ls)
    THEN IF cur = <<>> THEN out ELSE Append(out, cur)
    ELSE IF ls[i] = S_END_VCARD
         THEN BlocksFrom(ls, i + 1, <<>>, Append(out, Append(cur, ls[i])))
         ELSE BlocksFrom(ls, i + 1, Append(cur, ls[i]), out)

\* the blocks of an encoded text, each as its lines
EncodedBlocks(t) ==
    LET all == str_split(t, <<NL>>)
    IN  BlocksFrom(SubSeq(all, 1, Len(all) - 1), 1, <<>>, <<>>)

\* the lines ls are the block of row, in the order of the claim
BlockInOrder(row, ls) ==
    LET rs   == [i \in 1..Len(ls) |-> Rank(ls[i])]
        tels == SelectSeq(ls, HasRank5)
        ems  == SelectSeq(ls, HasRank6)
    IN  /\ \A i \in 1..Len(rs) : rs[i] > 0
        /\ \A i \in 1..(Len(rs) - 1) : rs[i] <= rs[i + 1]
        /\ \A k \in {1, 2, 3, 4, 11} : CountRank(rs, k) = 1
        /\ ls[1] = S_BEGIN_VCARD
        /\ ls[2] = S_VERSION
        /\ ls[Len(ls)] = S_END_VCARD
        /\ [i \in 1..Len(tels) |-> TelType(tels[i])] = ExpectedTelTypes(row)
        /\ \A i \in 1..Len(tels) : StartsWith(tels[i], S_TEL_TYPE)
        /\ [i \in 1..Len(ems) |-> PropValue(ems[i])]
               = [i \in 1..Len(ExpectedEmails(row)) |->
                     _escape_vcard_value(ExpectedEmails(row)[i])]
        /\ \A i \in 1..Len(ems) : StartsWith(ems[i], S_EMAIL_INTERNET)
        /\ CountRank(rs, 7) = (IF Filled(row, K_org) THEN 1 ELSE 0)
        /\ CountRank(rs, 8) = (IF Filled(row, K_title) THEN 1 ELSE 0)
        /\ CountRank(rs, 9) =
               (IF \E k \in {K_street, K_city, K_region, K_postal, K_country} :
                      Filled(row, k)
                THEN 1 ELSE 0)
        /\ CountRank(rs, 10) = (IF Filled(row, K_note) THEN 1 ELSE 0)

\* C9: the lines of every encoded block come in the order BEGIN:VCARD,
\* VERSION:3.0, N, FN, the TEL lines (VOICE, CELL, HOME, WORK, then the
\* custom phone_* cells in the row's order), the EMAIL lines (email before
\* email_alt), ORG, TITLE, ADR, NOTE, END:VCARD; BEGIN, VERSION, N, FN and
\* END are there exactly once, and ORG, TITLE, NOTE, each TEL and each EMAIL
\* line is there iff its cell is not empty, ADR iff one of the five address
\* cells is not empty (cells as the encoder reads them, without their
\* surrounding white space).
C9_LineOrder ==
    Encoded =>
        LET rs == log[Len(log)].rows
            bs == EncodedBlocks(text)
        IN  /\ Len(bs) = Len(rs)
            /\ \A i \in 1..Len(bs) : BlockInOrder(rs[i], bs[i])

\* a row with every kind of cell was encoded: six TEL lines, two EMAIL
\* lines and each optional line
C9_Witness ==
    /\ Encoded
    /\ Len(EncodedBlocks(text)) = 1
    /\ LET ls == EncodedBlocks(text)[1]
           rs == [i \in 1..Len(ls) |-> Rank(ls[i])]
       IN  /\ CountRank(rs, 5) = 6
           /\ CountRank(rs, 6) = 2
           /\ \A k \in 7..10 : CountRank(rs, k) = 1

----------------------------------------------------------------------------
(* C10 *)

RecognizedNames ==
    {LineOrder[k] : k \in {1, 3, 4, 5, 6, 7, 8, 9, 10, 11}}

\* a property line the decoder has no pattern for
Unrecognized(line) == HasColon(line) /\ PropName(line) \notin RecognizedNames

\* an N line without its 5 components, an ADR line without its 7
WrongArity(line) ==
    /\ HasColon(line)
    /\ \/ PropName(line) = LineOrder[3]
          /\ Len(str_split(PropValue(line), <<";">>)) # 5
       \/ PropName(line) = LineOrder[9]
          /\ Len(str_split(PropValue(line), <<";">>)) # 7

HasDelimiter(line) ==
    Contains(line, S_BEGIN_VCARD) \/ Contains(line, S_END_VCARD)

Without(ls, i) == SubSeq(ls, 1, i - 1) \o SubSeq(ls, i + 1, Len(ls))

\* the records are those of the file without its line i
Skipped(i) == cards = parse_vcf(FileText(Without(lines, i)))

----------------------------------------------------------------------------
(* C11 *)

\* how many backslashes stand right before position i of v
BackslashRun(v, i) ==
    LET others == {j \in 1..(i - 1) : v[j] # BS}
    IN  IF others = {} THEN i - 1
        ELSE (i - 1) - (CHOOSE j \in others : \A k \in others : k <= j)

\* the character at i is the second of an escape sequence
IsEscaped(v, i) == BackslashRun(v, i) % 2 = 1

\* the semicolons of v that are not part of an escape sequence
RawSemicolons(v) == {i \in 1..Len(v) : v[i] = ";" /\ ~IsEscaped(v, i)}

\* v holds no line break, comma or backslash outside an escape sequence,
\* and every backslash that opens one is followed by \, ; , or n
NoRawStructure(v) ==
    \A i \in 1..Len(v) :
        /\ v[i] \in {NL, CR, ","} => IsEscaped(v, i)
        /\ (v[i] = BS /\ ~IsEscaped(v, i)) =>
               (i < Len(v) /\ v[i + 1] \in {BS, ";", ",", "n"})
        /\ (v[i] \notin {BS, ";", ",", "n"}) => ~IsEscaped(v, i)

\* C11: in every encoded block each property is one physical line, as the
\* decoder's splitlines counts them; the value of every property line holds
\* no line break, comma or backslash outside an escape sequence, and no
\* semicolon outside one but the separators of N and ADR, of which the N
\* value has 4 (5 components) and the ADR value 6 (7 components).
C11_ValuesEscapedOneLineEach ==
    Encoded =>
        LET all == str_split(text, <<NL>>)
            ls  == SubSeq(all, 1, Len(all) - 1)
        IN  /\ str_splitlines(text) = ls
            /\ \A i \in 1..Len(ls) :
                   LET v == PropValue(ls[i])
                       r == Rank(ls[i])
                   IN  /\ NoRawStructure(v)
                       /\ r = 3 => Cardinality(RawSemicolons(v)) = 4
                       /\ r = 9 => Cardinality(RawSemicolons(v)) = 6
                       /\ r \notin {3, 9} => RawSemicolons(v) = {}

----------------------------------------------------------------------------
(* C12 *)

RECURSIVE BlocksInOrder(_, _)
\* the blocks of the rows rs from the i-th on, each followed by one newline
BlocksInOrder(rs, i) ==
    IF i > Len(rs) THEN <<>>
    ELSE build_vcard_row(rs[i]) \o <<NL>> \o BlocksInOrder(rs, i + 1)

\* C12: the text written for the rows is their encoded blocks in input
\* order with exactly one newline between two blocks; it ends with a
\* newline iff there is at least one row, and is empty for no rows.
C12_BlocksJoinedByOneNewline ==
    Encoded =>
        LET rs == log[Len(log)].rows
        IN  /\ text = BlocksInOrder(rs, 1)
            /\ (rs = <<>>) <=> (text = <<>>)
            /\ (rs # <<>>) <=> (text # <<>> /\ text[Len(text)] = NL)
            /\ ~Contains(text, <<NL, NL>>)
            /\ Len(SelectSeq(str_split(text, <<NL>>), NotBlank))
                   = Len(str_split(text, <<NL>>)) - 1

\* a table of two different rows was encoded
C12_Witness ==
    /\ Encoded
    /\ Len(log[Len(log)].rows) = 2
    /\ log[Len(log)].rows[1] # log[Len(log)].rows[2]
    /\ text = build_vcard_row(log[Len(log)].rows[1]) \o <<NL>>
              \o build_vcard_row(log[Len(log)].rows[2]) \o <<NL>>

----------------------------------------------------------------------------
(* C13 *)

\* the work of a conversion: reading and decoding or encoding the input,
\* creating and writing the output file
ConversionWork ==
    {"read input", "decode", "encode", "open output", "write output"}

\* C13: when table_to_vcf or vcf_to_table raises for an unsupported
\* extension of the table path, it has done no conversion work before: it
\* has not read, decoded or encoded the input and has neither created nor
\* written the output file.
C13_UnsupportedExtensionFailsFast ==
    pc = "raised" =>
        /\ steps[Len(steps)] = "raise"
        /\ \A i \in 1..Len(steps) : steps[i] \notin ConversionWork

----------------------------------------------------------------------------
(* C14 *)

\* a line of the form ADR:v or ADR;TYPE=...:v
IsAdrLine(line) ==
    /\ HasColon(line)
    /\ PropName(line) = LineOrder[9]
    /\ LET params == SubSeq(line, Len(LineOrder[9]) + 1,
                            FirstIn(line, {":"}) - 1)
       IN  \/ params = <<>>
           \/ /\ StartsWithNoCase(params, <<";","T","Y","P","E","=">>)
              /\ Len(params) > 6

\* component k of v, counted from 0, empty text if v has no such component
Component(v, k) ==
    LET cs == str_split(v, <<";">>)
    IN  IF k + 1 <= Len(cs) THEN cs[k + 1] ELSE <<>>

\* C14: the record of a block with an ADR line has as street, city, region,
\* postal and country the components 2 to 6 of the value of that line (of
\* the last one, if there are several), empty text for a missing one,
\* whatever the value holds.  Stated for files of one block without folded
\* lines.
C14_AdrComponents ==
    (/\ FirstDecode /\ OneBlock(lines) /\ NoFold(lines)
     /\ \E i \in 1..Len(lines) : IsAdrLine(lines[i]))
    => LET adr == SelectSeq(lines, IsAdrLine)
           v   == PropValue(adr[Len(adr)])
       IN  /\ Len(cards) = 1
           /\ cards[1].street = Component(v, 2)
           /\ cards[1].city = Component(v, 3)
           /\ cards[1].region = Component(v, 4)
           /\ cards[1].postal = Component(v, 5)
           /\ cards[1].country = Component(v, 6)

----------------------------------------------------------------------------
(* C15 *)

\* BEGIN:VCARD and END:VCARD stand on lines of their own
DelimitersOnOwnLines(ls) ==
    \A i \in 1..Len(ls) : HasDelimiter(ls[i]) => ls[i] \in {S_BEGIN_VCARD, S_END_VCARD}

\* line i of ls is a property line outside every block: no BEGIN:VCARD
\* stands before it, or an END:VCARD stands between the last one and it
IsStray(ls, i) ==
    /\ ls[i] \notin {S_BEGIN_VCARD, S_END_VCARD}
    /\ LET begins == {b \in 1..(i - 1) : ls[b] = S_BEGIN_VCARD}
       IN  \/ begins = {}
           \/ LET b == CHOOSE x \in begins : \A y \in begins : y <= x
              IN  \E e \in (b + 1)..(i - 1) : ls[e] = S_END_VCARD

\* ls without its property lines outside the blocks
WithoutStray(ls) ==
    LET keep == {i \in 1..Len(ls) : ~IsStray(ls, i)}
        RECURSIVE Pick(_)
        Pick(i) == IF i > Len(ls) THEN <<>>
                   ELSE (IF i \in keep THEN <<ls[i]>> ELSE <<>>) \o Pick(i + 1)
    IN  Pick(1)

\* C15: property lines before the first BEGIN:VCARD, or after an END:VCARD
\* and before the next BEGIN:VCARD, change no field of any record and
\* create no record: the records are those of the file without these
\* lines.  Stated for files without folded lines in which BEGIN:VCARD and
\* END:VCARD stand on lines of their own.
C15_OnlyLinesInsideBlocks ==
    (FirstDecode /\ NoFold(lines) /\ DelimitersOnOwnLines(lines))
    => cards = parse_vcf(FileText(WithoutStray(lines)))

----------------------------------------------------------------------------
(* C16 *)

\* C16: decoding the encoding of n rows gives exactly n records, and the
\* i-th record is the one record that the i-th encoded block gives when
\* decoded by itself, whatever the cells hold.
C16_BlocksIndependentInOrder ==
    RoundTrip =>
        LET rs == log[1].rows
        IN  /\ Len(cards) = Len(rs)
            /\ \A i \in 1..Len(rs) :
                   parse_vcf(build_vcard_row(rs[i]) \o <<NL>>) = <<cards[i]>>

====
